---- MODULE Spec2Model ----
(***************************************************************************)
(* The video pipeline of perplexed: create_job (app/routes/jobs.py) writes *)
(* a job record to Redis and enqueues split_video; the arq worker          *)
(* (app/worker.py) runs split_video, process_clip and stitch_video;        *)
(* get_job_status (app/routes/jobs.py) answers the client's polls.         *)
(*                                                                         *)
(* One job is modelled: every Redis key and every storage object of a job  *)
(* carries the job's uuid4 in its name, so jobs share no state.            *)
(* Every await on Redis, on the arq pool or on object storage is one step  *)
(* of the worker that runs the task, and any of them may raise (timeout,   *)
(* connection error).  Calls that touch no shared state (download to a     *)
(* temporary file, ffmpeg, speech-to-text, reference search) are folded    *)
(* into the step that follows them.                                        *)
(***************************************************************************)
EXTENDS Integers, Sequences, FiniteSets, Bags, TLC

\* ---------------------------------------------------------------- constants
chunk_duration == 20
max_duration == 40
\* transcribe_with_elevenlabs(video_path, max_retries=2)
max_retries == 2

\* ------------------------------------------------------------------- bounds
NumWorkers == 2
MaxRedeliveries == 1

\* durations (seconds) of the videos a request may point at
SourceDurations == {0, 20, 45}
\* image URLs the reference search may return
Images == {"imgA"}
NoImage == "none"

Unset == "unset"

Min(a, b) == IF a < b THEN a ELSE b

\* app/common/video.py split_video: the number of clips cut from a video
NumClips(total_duration, clip_duration) ==
    (total_duration \div clip_duration)
        + (IF total_duration % clip_duration > 0 THEN 1 ELSE 0)

\* worker.py split_video: ffmpeg -t max_duration keeps the first max_duration
\* seconds ("if max_duration" is true for the default 40)
Trimmed(d) == IF max_duration # 0 THEN Min(d, max_duration) ELSE d

\* clip indices a job can have
ClipIdx == 0..(NumClips(max_duration, chunk_duration) - 1)

SplitTask == [name |-> "split_video", idx |-> 0]
ClipTask(i) == [name |-> "process_clip", idx |-> i]
StitchTask == [name |-> "stitch_video", idx |-> 0]
Tasks == {SplitTask, StitchTask} \cup {ClipTask(i) : i \in ClipIdx}

VARIABLES
    \* the ledger (Redis keys job:{id}:...)
    status, video_path, total, done, error, final_url,
    has_replacement, clip_error, used_images,
    \* for each ledger key whether it is absent, expires (has a TTL) or is
    \* persistent (has none)
    ttl,
    \* object storage (Supabase bucket, videos/{id}/...)
    chunks, replacements, final_object,
    \* the arq queue: how many undelivered messages of each task
    queue,
    \* the task invocations in progress on the workers (a bag): for each its
    \* task, its position and its local variables
    running,
    \* the create_job request handler and its last response
    api, response,
    \* the JSON body of the last POST /jobs request
    request_body,
    \* the last response of get_job_status
    status_response,
    \* duration of the video behind video_path
    source,
    \* number of worker processes (max_jobs = 1 each)
    pool_size,
    \* whether Redis, the arq pool, object storage and ffmpeg can fail in
    \* this run (timeout, connection error, non-zero exit)
    faults,
    \* number of messages the queue has delivered again
    redelivered,
    \* history: successful enqueue_job('stitch_video') calls
    stitch_enqueued,
    \* history: how far split_video has come in some invocation:
    \* "none", "recorded" (total written), "returned"
    split_progress,
    \* history: a call inside process_clip's failure handler has raised and
    \* was dropped (lines 326-327)
    handler_dropped,
    \* a reference lookup examined on its own: what the transcript mentions
    \* and the searches return (references), and the image process_clip takes
    \* from the result of process_transcript_references (image_url)
    lookup

ledger == <<status, video_path, total, done, error, final_url,
            has_replacement, clip_error, used_images, ttl>>
storage == <<chunks, replacements, final_object>>
vars == <<status, video_path, total, done, error, final_url,
          has_replacement, clip_error, used_images, ttl,
          chunks, replacements, final_object,
          queue, running, api, response, status_response, source, pool_size,
          faults, redelivered, stitch_enqueued, split_progress, handler_dropped,
          lookup, request_body>>

\* the keys of the ledger: job:{id}:<name> and job:{id}:clip:{idx}:<name>
Keys ==
    {<<n>> : n \in {"status", "video_path", "total", "done", "error",
                    "final_url", "used_images"}}
      \cup {<<"clip", i, n>> : i \in ClipIdx,
                                n \in {"has_replacement", "error"}}

\* set(key, value, ex=172800): the key expires
SetEx(k) == ttl' = [ttl EXCEPT ![k] = "expires"]
\* set(key, value): Redis SET without EX or KEEPTTL discards any TTL
SetPlain(k) == ttl' = [ttl EXCEPT ![k] = "persistent"]
\* incr(key), sadd(key, member): an existing key keeps its TTL, a key the
\* call creates has none
Touch(k) == ttl' = [ttl EXCEPT ![k] = IF @ = "absent" THEN "persistent" ELSE @]

\* the first position of each task function
EntryPc(t) ==
    CASE t.name = "split_video" -> "s_set_processing"
      [] t.name = "process_clip" -> "c_begin"
      [] t.name = "stitch_video" -> "st_set_stitching"

\* a task invocation at the entry of its function: num_chunks (n), the loop
\* index (i), image_url, done as returned by incr (l_done), total as read
\* by stitch_video (l_total), the values it read from has_replacement (reads);
\* the indices of the clips in clip_paths (clip_paths); incrs counts the incr
\* calls the invocation has made; outcome is the branch of process_clip that
\* decided the clip's outcome; remote_paths are the objects stitch_video has
\* downloaded; attempt is the loop variable of transcribe_with_elevenlabs;
\* temp is the set of local temporary files and
\* directories the invocation has created and not removed
Invocation(t) ==
    [task |-> t.name, idx |-> t.idx, pc |-> EntryPc(t),
     n |-> 0, i |-> 0, image_url |-> NoImage,
     l_done |-> 0, l_total |-> 0, incrs |-> 0, reads |-> <<>>,
     clip_paths |-> <<>>, remote_paths |-> <<>>, outcome |-> "none",
     temp |-> {}, attempt |-> 0]

\* get_job_status has not been called
NoResponse ==
    [code |-> "none", status |-> Unset, keys |-> {}, final_url |-> Unset,
     read |-> {}]

\* the categories of references, in the order process_transcript_references
\* goes through them, and in the order process_clip goes through its result
Priority == <<"content", "people", "organisations", "events">>
ResultOrder == <<"people", "organisations", "content", "events">>
Categories == {Priority[k] : k \in DOMAIN Priority}

\* what a category holds for a transcript: no reference ("absent"), a first
\* reference whose search raises ("raises"), one whose search returns an
\* empty image_url (NoImage), or one whose search returns an image
SearchOutcomes == {"absent", "raises", NoImage} \cup Images
References == [Categories -> SearchOutcomes]

NoResults == [c \in Categories |-> <<>>]

\* the categories from the k-th on: the first one that holds a reference is
\* searched; its search result is appended and returned, whatever its
\* image_url, unless the search raised
RECURSIVE SearchFrom(_, _)
SearchFrom(references, k) ==
    IF k > Len(Priority) THEN NoResults
    ELSE IF references[Priority[k]] \in {"absent", "raises"}
         THEN SearchFrom(references, k + 1)
         ELSE [NoResults EXCEPT ![Priority[k]] = <<references[Priority[k]]>>]

ProcessTranscriptReferences(references) == SearchFrom(references, 1)

\* process_clip: the first entry with an image_url, people first
RECURSIVE FirstImageFrom(_, _)
FirstImageFrom(perplexity_results, k) ==
    IF k > Len(ResultOrder) THEN NoImage
    ELSE LET with_image == SelectSeq(perplexity_results[ResultOrder[k]],
                                     LAMBDA u : u # NoImage)
         IN  IF with_image # <<>> THEN Head(with_image)
             ELSE FirstImageFrom(perplexity_results, k + 1)

FirstImage(perplexity_results) == FirstImageFrom(perplexity_results, 1)

\* the values image_url can get from a lookup that returns
LookupImages ==
    {FirstImage(ProcessTranscriptReferences(references)) :
         references \in References}

\* no reference lookup is examined
NoLookup == [references |-> [c \in Categories |-> "absent"],
             image_url |-> Unset]

InitJob ==
    /\ status = Unset /\ video_path = Unset /\ total = 0 /\ done = 0
    /\ error = Unset /\ final_url = Unset
    /\ has_replacement = [i \in ClipIdx |-> Unset]
    /\ clip_error = [i \in ClipIdx |-> Unset]
    /\ used_images = {}
    /\ ttl = [k \in Keys |-> "absent"]
    /\ chunks = {} /\ replacements = [i \in ClipIdx |-> NoImage]
    /\ final_object = FALSE
    /\ queue = [t \in Tasks |-> 0]
    /\ running = EmptyBag
    /\ api = "idle" /\ response = "none"
    /\ request_body = "no_request"
    /\ status_response = NoResponse
    /\ source \in SourceDurations
    /\ redelivered = 0
    /\ stitch_enqueued = 0
    /\ split_progress = "none"
    /\ handler_dropped = FALSE

\* a pool of workers, every message delivered once
Init == InitJob /\ pool_size = NumWorkers /\ faults = TRUE
        /\ lookup = NoLookup

\* one worker, messages may be delivered again
InitAtLeastOnce == InitJob /\ pool_size = 1 /\ faults = TRUE
                   /\ lookup = NoLookup

\* a pool of workers; Redis, the arq pool and object storage never fail
InitReliable == InitJob /\ pool_size = NumWorkers /\ faults = FALSE
                /\ lookup = NoLookup

\* one worker; Redis, the arq pool and object storage never fail
InitRequery == InitJob /\ pool_size = 1 /\ faults = FALSE
               /\ lookup = NoLookup

Enqueue(t) == queue' = [queue EXCEPT ![t] = @ + 1]
Running == BagToSet(running)

\* a local variable is kept only while the function can still read it; the
\* outcome of a clip is the branch of process_clip the invocation is in
LiveLocals(r) ==
    [r EXCEPT
       !.n = IF r.pc \in {"s_upload", "s_set_total", "s_enqueue"}
             THEN @ ELSE 0,
       !.i = IF r.pc \in {"s_upload", "s_enqueue", "st_read", "st_download"}
             THEN @ ELSE 0,
       !.image_url = IF r.pc \in {"c_smembers", "c_sadd", "c_build"}
                     THEN @ ELSE NoImage,
       !.l_done = IF r.pc \in {"t_get_total", "c_get_total", "h_get_total"}
                  THEN @ ELSE 0,
       !.l_total = IF r.pc \in {"st_read", "st_download", "st_concat"}
                   THEN @ ELSE 0,
       !.reads = IF r.pc \in {"st_read", "st_download", "st_concat"}
                 THEN @ ELSE <<>>,
       !.clip_paths = IF r.pc \in {"st_read", "st_download", "st_concat"}
                      THEN @ ELSE <<>>,
       !.remote_paths = IF r.pc \in {"st_read", "st_download", "st_concat"}
                        THEN @ ELSE <<>>,
       !.attempt = IF r.pc = "c_transcribe" THEN @ ELSE 0,
       !.outcome =
           CASE r.pc \in {"t_set_hr", "t_set_err", "t_incr"}
                    -> "transcription_failed"
             [] r.pc = "c_used_set_hr" -> "image_used"
             [] r.pc = "c_set_true" -> "replaced"
             [] r.pc \in {"x_set_hr", "x_set_err"} -> "replacement_failed"
             [] r.pc \in {"c_noimg_set_hr", "c_incr"} -> @
             [] OTHER -> "none"]

\* the function body is left, by return or by an exception
\* ("raised": the handler re-raised; "handler_raised": a call inside the
\* handler of split_video or stitch_video raised; "h_redis_error": a call
\* inside process_clip's handler raised and was dropped)
AtEnd(p) == p \in {"returned", "raised", "handler_raised", "h_redis_error"}

\* the files the finally block of each task function removes.  split_video
\* removes the file temp_video names, which is the download until line 116
\* rebinds it to the trimmed file (the download being removed at line 115),
\* and temp_chunks_dir with its contents
Removed(r) ==
    CASE r.task = "split_video" ->
             (IF "temp_video" \in r.temp THEN {"temp_video"}
              ELSE {"trimmed_video"}) \cup {"temp_chunks_dir"}
      [] r.task = "process_clip" ->
             {"temp_clip", "temp_audio", "temp_image", "temp_replacement"}
      [] r.task = "stitch_video" -> {"final_video", "temp_concat_dir"}

\* finally: runs when the function is left, however it is left
Finally(r) == IF AtEnd(r.pc) THEN [r EXCEPT !.temp = @ \ Removed(r)] ELSE r

Become(r, r2) ==
    /\ running' =
          (running (-) SetToBag({r})) (+) SetToBag({Finally(LiveLocals(r2))})
    /\ handler_dropped' = (handler_dropped \/ r2.pc = "h_redis_error")
Goto(r, p) == Become(r, [r EXCEPT !.pc = p])
At(r, name, p) == r.task = name /\ r.pc = p

\* ------------------------------------------------ routes/jobs.py create_job
\* a request without video_path (line 14: not data or 'video_path' not in
\* data), that is, with no JSON body, an empty one, or a JSON object without
\* the key: 400 INVALID_REQUEST, nothing written
CreateJobReject ==
    /\ api = "idle"
    /\ request_body' \in {"none", "object_without_video_path"}
    /\ response' = "INVALID_REQUEST"
    /\ UNCHANGED <<ledger, storage, queue, running, api, source, pool_size,
                   faults, lookup, status_response, redelivered,
                   stitch_enqueued, split_progress, handler_dropped>>

\* a request without video_path whose body is not a JSON object: get_json
\* raises on a malformed body (line 12), the operator 'in' raises TypeError on
\* a number or true (line 14), and a string or list holding "video_path"
\* passes the test and raises at data['video_path'] (line 24); the handler
\* at line 55 turns each into 500 INTERNAL_ERROR, nothing written
CreateJobBadBody ==
    /\ api = "idle"
    /\ request_body' = "not_an_object"
    /\ response' = "INTERNAL_ERROR"
    /\ UNCHANGED <<ledger, storage, queue, running, api, source, pool_size,
                   faults, lookup, status_response, redelivered,
                   stitch_enqueued, split_progress, handler_dropped>>

\* a request with video_path: uuid4 job id, then the four SETs and the enqueue
CreateJobAccept ==
    /\ api = "idle"
    /\ api' = "set_status"
    /\ request_body' = "object_with_video_path"
    /\ UNCHANGED <<ledger, storage, queue, running, response, source,
                   pool_size, faults, lookup, status_response, redelivered,
                   stitch_enqueued, split_progress, handler_dropped>>

CreateJobFail ==
    /\ faults
    /\ api' = "responded" /\ response' = "INTERNAL_ERROR"
    /\ UNCHANGED <<ledger, queue>>

CreateJobSetStatus ==
    /\ api = "set_status"
    /\ \/ status' = "queued" /\ SetEx(<<"status">>) /\ api' = "set_video_path"
          /\ UNCHANGED <<video_path, total, done, error, final_url,
                         has_replacement, clip_error, used_images, queue,
                         response>>
       \/ CreateJobFail
    /\ UNCHANGED <<storage, running, source, pool_size, faults, lookup,
                   request_body, status_response, redelivered,
                   stitch_enqueued, split_progress, handler_dropped>>

CreateJobSetVideoPath ==
    /\ api = "set_video_path"
    /\ \/ video_path' = "url" /\ SetEx(<<"video_path">>) /\ api' = "set_total"
          /\ UNCHANGED <<status, total, done, error, final_url,
                         has_replacement, clip_error, used_images, queue,
                         response>>
       \/ CreateJobFail
    /\ UNCHANGED <<storage, running, source, pool_size, faults, lookup,
                   request_body, status_response, redelivered,
                   stitch_enqueued, split_progress, handler_dropped>>

CreateJobSetTotal ==
    /\ api = "set_total"
    /\ \/ total' = 0 /\ SetEx(<<"total">>) /\ api' = "set_done"
          /\ UNCHANGED <<status, video_path, done, error, final_url,
                         has_replacement, clip_error, used_images, queue,
                         response>>
       \/ CreateJobFail
    /\ UNCHANGED <<storage, running, source, pool_size, faults, lookup,
                   request_body, status_response, redelivered,
                   stitch_enqueued, split_progress, handler_dropped>>

CreateJobSetDone ==
    /\ api = "set_done"
    /\ \/ done' = 0 /\ SetEx(<<"done">>) /\ api' = "enqueue"
          /\ UNCHANGED <<status, video_path, total, error, final_url,
                         has_replacement, clip_error, used_images, queue,
                         response>>
       \/ CreateJobFail
    /\ UNCHANGED <<storage, running, source, pool_size, faults, lookup,
                   request_body, status_response, redelivered,
                   stitch_enqueued, split_progress, handler_dropped>>

CreateJobEnqueue ==
    /\ api = "enqueue"
    /\ \/ Enqueue(SplitTask) /\ api' = "responded" /\ response' = "CREATED"
          /\ UNCHANGED ledger
       \/ CreateJobFail
    /\ UNCHANGED <<storage, running, source, pool_size, faults, lookup,
                   request_body, status_response, redelivered,
                   stitch_enqueued, split_progress, handler_dropped>>

\* -------------------------------------------- routes/jobs.py get_job_status
\* line 97: the URL get_job_status builds from SUPABASE_URL, SUPABASE_BUCKET
\* and the job id
PublicFinalUrl == "storage/v1/object/public/bucket/videos/job/final.mp4"

\* get_job_status without the "if not status" test of line 74
GetJobStatus_NoNotFound ==
    /\ status_response' =
          [code |-> "OK", status |-> status,
           keys |-> {"job_id", "status", "progress"},
           final_url |-> Unset, read |-> {"status", "total", "done"}]
    /\ UNCHANGED <<ledger, storage, queue, running, api, response, source,
                   pool_size, faults, lookup, request_body, redelivered,
                   stitch_enqueued, split_progress, handler_dropped>>

\* GET /jobs/<job_id>.  The response's status and keys depend on the one read
\* of job:{id}:status; the reads of total and done that follow change nothing
\* and are recorded in `read`.  keys are the keys of the response's data.
GetJobStatus ==
    /\ \/ /\ faults
          /\ status_response' =
                [code |-> "INTERNAL_ERROR", status |-> Unset, keys |-> {},
                 final_url |-> Unset, read |-> {}]
       \/ /\ status = Unset
          /\ status_response' =
                [code |-> "NOT_FOUND", status |-> Unset, keys |-> {},
                 final_url |-> Unset, read |-> {"status"}]
       \/ /\ status # Unset
          /\ status_response' =
                [code |-> "OK", status |-> status,
                 keys |-> {"job_id", "status", "progress"}
                            \cup (IF status = "finished"
                                  THEN {"final_url"} ELSE {}),
                 final_url |-> IF status = "finished"
                               THEN PublicFinalUrl ELSE Unset,
                 read |-> {"status", "total", "done"}]
    /\ UNCHANGED <<ledger, storage, queue, running, api, response, source,
                   pool_size, faults, lookup, request_body, redelivered,
                   stitch_enqueued, split_progress, handler_dropped>>

\* ------------------------------------------------------------ the arq queue
\* a worker with a free slot (max_jobs = 1 each) takes a message and calls
\* the task function
Deliver(t) ==
    /\ BagCardinality(running) < pool_size
    /\ queue[t] > 0
    /\ queue' = [queue EXCEPT ![t] = @ - 1]
    /\ running' = running (+) SetToBag({Invocation(t)})
    /\ UNCHANGED <<ledger, storage, api, response, source, pool_size, faults,
                   lookup, request_body, status_response, redelivered,
                   stitch_enqueued, split_progress, handler_dropped>>

\* the task function returned or raised: arq records the result
Finish(r) ==
    /\ AtEnd(r.pc)
    /\ running' = running (-) SetToBag({r})
    /\ UNCHANGED <<ledger, storage, queue, api, response, source, pool_size,
                   faults, lookup, request_body, status_response, redelivered,
                   stitch_enqueued, split_progress, handler_dropped>>

\* at-least-once delivery: the function has run to its end, but the worker
\* stops before arq has recorded the result, or the queue retries a task that
\* raised; the message is delivered again
Redeliver(r) ==
    /\ AtEnd(r.pc)
    /\ redelivered < MaxRedeliveries
    /\ redelivered' = redelivered + 1
    /\ Enqueue([name |-> r.task, idx |-> r.idx])
    /\ running' = running (-) SetToBag({r})
    /\ UNCHANGED <<ledger, storage, api, response, source, pool_size, faults,
                   lookup, request_body, status_response, stitch_enqueued,
                   split_progress, handler_dropped>>

\* --------------------------------------------------- worker.py split_video
\* except Exception: the handler at lines 139-144
\* the exception leaves split_video without passing through a handler
SplitRaise_NoHandler(r) == Goto(r, "raised")

SplitRaise(r) == Goto(r, "s_fail_status")
\* a call to Redis, the arq pool or object storage raises
SplitFault(r) == faults /\ SplitRaise(r)

SplitSetProcessing(r) ==
    /\ At(r, "split_video", "s_set_processing")
    /\ \/ /\ status' = "processing" /\ SetPlain(<<"status">>)
          /\ Goto(r, "s_get_video_path")
       \/ SplitFault(r) /\ UNCHANGED <<status, ttl>>
    /\ UNCHANGED <<video_path, total, done, error, final_url, has_replacement,
                   clip_error, used_images, storage, queue, api, response,
                   source, pool_size, faults, lookup, request_body,
                   status_response, redelivered, stitch_enqueued,
                   split_progress>>

\* lines 97-102: get video_path (ValueError when it is missing), then create
\* the file temp_video names
SplitPrepare(r) ==
    /\ At(r, "split_video", "s_get_video_path")
    /\ \/ /\ video_path # Unset
          /\ Become(r, [r EXCEPT !.temp = {"temp_video"},
                                  !.pc = "s_download"])
       \/ (faults \/ video_path = Unset) /\ SplitRaise(r)
    /\ UNCHANGED <<ledger, storage, queue, api, response, source, pool_size,
                   faults, lookup, request_body, status_response, redelivered,
                   stitch_enqueued, split_progress>>

\* lines 103-107: download the source into temp_video, then (max_duration
\* being set) create the file trimmed_video names
SplitDownload(r) ==
    /\ At(r, "split_video", "s_download")
    /\ \/ Become(r, [r EXCEPT
                        !.temp = @ \cup {IF max_duration # 0
                                         THEN "trimmed_video"
                                         ELSE "temp_chunks_dir"},
                        !.pc = IF max_duration # 0 THEN "s_trim"
                               ELSE "s_cut"])
       \/ SplitFault(r)
    /\ UNCHANGED <<ledger, storage, queue, api, response, source, pool_size,
                   faults, lookup, request_body, status_response, redelivered,
                   stitch_enqueued, split_progress>>

\* lines 109-119: ffmpeg trims temp_video into trimmed_video (check=True
\* raises when it fails); then os.remove(temp_video), temp_video =
\* trimmed_video, and temp_chunks_dir = mkdtemp()
SplitTrim(r) ==
    /\ At(r, "split_video", "s_trim")
    /\ \/ Become(r, [r EXCEPT
                        !.temp = (@ \ {"temp_video"}) \cup {"temp_chunks_dir"},
                        !.pc = "s_cut"])
       \/ SplitFault(r)
    /\ UNCHANGED <<ledger, storage, queue, api, response, source, pool_size,
                   faults, lookup, request_body, status_response, redelivered,
                   stitch_enqueued, split_progress>>

\* line 120: split_video_ffmpeg cuts the video into chunks of chunk_duration
SplitCut(r) ==
    /\ At(r, "split_video", "s_cut")
    /\ \/ LET num_chunks == NumClips(Trimmed(source), chunk_duration) IN
             Become(r, [r EXCEPT !.n = num_chunks, !.i = 0,
                           !.pc = IF num_chunks = 0 THEN "s_set_total"
                                     ELSE "s_upload"])
       \/ SplitFault(r)
    /\ UNCHANGED <<ledger, storage, queue, api, response, source, pool_size,
                   faults, lookup, request_body, status_response, redelivered,
                   stitch_enqueued, split_progress>>

\* total is rewritten after every uploaded chunk, not once after the loop
SplitUpload_CountsAsItGoes(r) ==
    /\ At(r, "split_video", "s_upload")
    /\ \/ /\ chunks' = chunks \cup {r.i}
          /\ total' = r.i + 1
          /\ SetPlain(<<"total">>)
          /\ Become(r, [r EXCEPT !.i = @ + 1,
                           !.pc = IF r.i + 1 = r.n
                                     THEN "s_set_total" ELSE "s_upload"])
       \/ SplitFault(r) /\ UNCHANGED <<chunks, total, ttl>>
    /\ UNCHANGED <<status, video_path, done, error, final_url,
                   has_replacement, clip_error, used_images, replacements,
                   final_object, queue, api, response, source, pool_size,
                   faults, lookup, request_body, status_response, redelivered,
                   stitch_enqueued, split_progress>>

SplitUpload(r) ==
    /\ At(r, "split_video", "s_upload")
    /\ \/ /\ chunks' = chunks \cup {r.i}
          /\ Become(r, [r EXCEPT !.i = @ + 1,
                           !.pc = IF r.i + 1 = r.n
                                     THEN "s_set_total" ELSE "s_upload"])
       \/ SplitFault(r) /\ UNCHANGED chunks
    /\ UNCHANGED <<ledger, replacements, final_object, queue, api, response,
                   source, pool_size, faults, lookup, request_body,
                   status_response, redelivered, stitch_enqueued,
                   split_progress>>

\* split_video goes on to enqueue the process_clip tasks without recording
\* total
SplitSetTotal_NotRecorded(r) ==
    /\ At(r, "split_video", "s_set_total")
    /\ Goto(r, IF r.n = 0 THEN "returned" ELSE "s_enqueue")
    /\ split_progress' = IF r.n = 0 \/ split_progress = "returned"
                         THEN "returned" ELSE "recorded"
    /\ UNCHANGED <<ledger, storage, queue, api, response, source, pool_size,
                   faults, lookup, request_body, status_response, redelivered,
                   stitch_enqueued>>

SplitSetTotal(r) ==
    /\ At(r, "split_video", "s_set_total")
    /\ \/ /\ total' = r.n
          /\ SetPlain(<<"total">>)
          /\ Goto(r, IF r.n = 0 THEN "returned" ELSE "s_enqueue")
          /\ split_progress' = IF r.n = 0 \/ split_progress = "returned"
                               THEN "returned" ELSE "recorded"
       \/ SplitFault(r) /\ UNCHANGED <<total, ttl, split_progress>>
    /\ UNCHANGED <<status, video_path, done, error, final_url,
                   has_replacement, clip_error, used_images, storage, queue,
                   api, response, source, pool_size, faults, lookup,
                   request_body, status_response, redelivered,
                   stitch_enqueued>>

SplitEnqueue(r) ==
    /\ At(r, "split_video", "s_enqueue")
    /\ \/ /\ Enqueue(ClipTask(r.i))
          /\ Become(r, [r EXCEPT !.i = @ + 1,
                           !.pc = IF r.i + 1 = r.n
                                  THEN "returned" ELSE "s_enqueue"])
          /\ split_progress' = IF r.i + 1 = r.n THEN "returned"
                               ELSE split_progress
       \/ SplitFault(r) /\ UNCHANGED <<queue, split_progress>>
    /\ UNCHANGED <<ledger, storage, api, response, source, pool_size, faults,
                   lookup, request_body, status_response, redelivered,
                   stitch_enqueued>>

SplitFailStatus(r) ==
    /\ At(r, "split_video", "s_fail_status")
    /\ \/ /\ status' = "failed" /\ SetPlain(<<"status">>)
          /\ Goto(r, "s_fail_error")
       \/ faults /\ Goto(r, "handler_raised") /\ UNCHANGED <<status, ttl>>
    /\ UNCHANGED <<video_path, total, done, error, final_url, has_replacement,
                   clip_error, used_images, storage, queue, api, response,
                   source, pool_size, faults, lookup, request_body,
                   status_response, redelivered, stitch_enqueued,
                   split_progress>>

SplitFailError(r) ==
    /\ At(r, "split_video", "s_fail_error")
    /\ \/ /\ error' = "split_video" /\ SetPlain(<<"error">>)
          /\ Goto(r, "raised")
       \/ faults /\ Goto(r, "handler_raised") /\ UNCHANGED <<error, ttl>>
    /\ UNCHANGED <<status, video_path, total, done, final_url,
                   has_replacement, clip_error, used_images, storage, queue,
                   api, response, source, pool_size, faults, lookup,
                   request_body, status_response, redelivered,
                   stitch_enqueued, split_progress>>

\* -------------------------------------------------- worker.py process_clip
\* The Redis and arq calls of process_clip.  Each either completes and moves
\* the worker to okpc, or raises and moves it to failpc.
SetHasReplacement(r, v, okpc, failpc) ==
    /\ \/ /\ has_replacement' = [has_replacement EXCEPT ![r.idx] = v]
          /\ SetPlain(<<"clip", r.idx, "has_replacement">>)
          /\ Goto(r, okpc)
       \/ faults /\ Goto(r, failpc) /\ UNCHANGED <<has_replacement, ttl>>
    /\ UNCHANGED <<status, video_path, total, done, error, final_url,
                   clip_error, used_images, storage, queue, api, response,
                   source, pool_size, faults, lookup, request_body,
                   status_response, redelivered, stitch_enqueued,
                   split_progress>>

SetClipError(r, v, okpc, failpc) ==
    /\ \/ /\ clip_error' = [clip_error EXCEPT ![r.idx] = v]
          /\ SetPlain(<<"clip", r.idx, "error">>)
          /\ Goto(r, okpc)
       \/ faults /\ Goto(r, failpc) /\ UNCHANGED <<clip_error, ttl>>
    /\ UNCHANGED <<status, video_path, total, done, error, final_url,
                   has_replacement, used_images, storage, queue, api,
                   response, source, pool_size, faults, lookup, request_body,
                   status_response, redelivered, stitch_enqueued,
                   split_progress>>

\* done = await redis_client.incr(f"job:{job_id}:done")
IncrDone(r, okpc, failpc) ==
    /\ \/ /\ done' = done + 1
          /\ Touch(<<"done">>)
          /\ Become(r, [r EXCEPT !.l_done = done + 1,
                           !.incrs = @ + 1, !.pc = okpc])
       \/ faults /\ Goto(r, failpc) /\ UNCHANGED <<done, ttl>>
    /\ UNCHANGED <<status, video_path, total, error, final_url,
                   has_replacement, clip_error, used_images, storage, queue,
                   api, response, source, pool_size, faults, lookup,
                   request_body, status_response, redelivered,
                   stitch_enqueued, split_progress>>

\* total = int(await redis_client.get(f"job:{job_id}:total") or 0)
\* if done == total: (enqueue)
GetTotal(r, eqpc, nepc, failpc) ==
    /\ \/ Goto(r, IF r.l_done = total THEN eqpc ELSE nepc)
       \/ faults /\ Goto(r, failpc)
    /\ UNCHANGED <<ledger, storage, queue, api, response, source, pool_size,
                   faults, lookup, request_body, status_response, redelivered,
                   stitch_enqueued, split_progress>>

\* await ctx['pool'].enqueue_job('stitch_video', job_id)
EnqueueStitch(r, okpc, failpc) ==
    /\ \/ /\ Enqueue(StitchTask)
          /\ stitch_enqueued' = stitch_enqueued + 1
          /\ Goto(r, okpc)
       \/ faults /\ Goto(r, failpc) /\ UNCHANGED <<queue, stitch_enqueued>>
    /\ UNCHANGED <<ledger, storage, api, response, source, pool_size, faults,
                   lookup, request_body, status_response, redelivered,
                   split_progress>>

\* lines 169-177: create the file temp_clip names and download the chunk
\* into it
ClipBegin(r) ==
    /\ At(r, "process_clip", "c_begin")
    /\ LET r1 == [r EXCEPT !.temp = {"temp_clip"}] IN
       \/ /\ faults \/ r.idx \notin chunks       \* download raised
          /\ Become(r, [r1 EXCEPT !.pc = "h_set_hr"])
       \/ /\ r.idx \in chunks
          /\ Become(r, [r1 EXCEPT !.attempt = 0, !.pc = "c_transcribe"])
    /\ UNCHANGED <<ledger, storage, queue, api, response, source, pool_size,
                   faults, lookup, request_body, status_response, redelivered,
                   stitch_enqueued, split_progress>>

\* the first failed attempt raises: no retry
ClipTranscribe_NoRetry(r) ==
    /\ At(r, "process_clip", "c_transcribe")
    /\ \/ Goto(r, "c_lookup")
       \/ Goto(r, "t_set_hr")
    /\ UNCHANGED <<ledger, storage, queue, api, response, source, pool_size,
                   faults, lookup, request_body, status_response, redelivered,
                   stitch_enqueued, split_progress>>

\* one attempt of transcribe_with_elevenlabs (lines 61-76), called at line
\* 182: it returns result.text, or it raises and the function sleeps and
\* goes round the loop, or, on the last attempt, re-raises to process_clip
\* (except at line 183)
ClipTranscribe(r) ==
    /\ At(r, "process_clip", "c_transcribe")
    /\ \/ Goto(r, "c_lookup")
       \/ IF r.attempt < max_retries - 1
          THEN Become(r, [r EXCEPT !.attempt = @ + 1])
          ELSE Goto(r, "t_set_hr")
    /\ UNCHANGED <<ledger, storage, queue, api, response, source, pool_size,
                   faults, lookup, request_body, status_response, redelivered,
                   stitch_enqueued, split_progress>>

\* lines 200-241: search references for the transcript
ClipLookup(r) ==
    /\ At(r, "process_clip", "c_lookup")
    /\ \* the reference search raised (lines 239-241): image_url = None
       \/ Become(r, [r EXCEPT !.outcome = "lookup_failed",
                               !.pc = "c_noimg_set_hr"])
       \* the search returned: image_url is the first image of its result,
       \* None when it has none
       \/ \E u \in LookupImages :
             IF u = NoImage
             THEN Become(r, [r EXCEPT !.outcome = "no_reference",
                                      !.pc = "c_noimg_set_hr"])
             ELSE Become(r, [r EXCEPT !.image_url = u,
                                      !.pc = "c_smembers"])
    /\ UNCHANGED <<ledger, storage, queue, api, response, source, pool_size,
                   faults, lookup, request_body, status_response, redelivered,
                   stitch_enqueued, split_progress>>

\* lines 184-198: the transcription-failure path
ClipTrSetHasReplacement(r) ==
    /\ At(r, "process_clip", "t_set_hr")
    /\ SetHasReplacement(r, "false", "t_set_err", "h_set_hr")

ClipTrSetError(r) ==
    /\ At(r, "process_clip", "t_set_err")
    /\ SetClipError(r, "transcription_failed", "t_incr", "h_set_hr")

\* the transcription-failure path returns without the fan-in
ClipTrIncr_NoFanIn(r) ==
    /\ At(r, "process_clip", "t_incr")
    /\ Goto(r, "returned")
    /\ UNCHANGED <<ledger, storage, queue, api, response, source, pool_size,
                   faults, lookup, request_body, status_response, redelivered,
                   stitch_enqueued, split_progress>>

ClipTrIncr(r) ==
    /\ At(r, "process_clip", "t_incr")
    /\ IncrDone(r, "t_get_total", "h_set_hr")

ClipTrGetTotal(r) ==
    /\ At(r, "process_clip", "t_get_total")
    /\ GetTotal(r, "t_enqueue", "returned", "h_set_hr")

ClipTrEnqueue(r) ==
    /\ At(r, "process_clip", "t_enqueue")
    /\ EnqueueStitch(r, "returned", "h_set_hr")

\* lines 244-252: used_images = smembers(...); if image_url in used_images
ClipSmembers(r) ==
    /\ At(r, "process_clip", "c_smembers")
    /\ \/ Goto(r, IF r.image_url \in used_images
                  THEN "c_used_set_hr" ELSE "c_sadd")
       \/ faults /\ Goto(r, "h_set_hr")
    /\ UNCHANGED <<ledger, storage, queue, api, response, source, pool_size,
                   faults, lookup, request_body, status_response, redelivered,
                   stitch_enqueued, split_progress>>

ClipUsedSetHasReplacement(r) ==
    /\ At(r, "process_clip", "c_used_set_hr")
    /\ SetHasReplacement(r, "false", "c_incr", "h_set_hr")

\* line 257: sadd(used_images_key, image_url), inside the inner try
ClipSadd(r) ==
    /\ At(r, "process_clip", "c_sadd")
    /\ \/ /\ used_images' = used_images \cup {r.image_url}
          /\ Touch(<<"used_images">>)
          /\ Goto(r, "c_build")
       \/ faults /\ Goto(r, "x_set_hr") /\ UNCHANGED <<used_images, ttl>>
    /\ UNCHANGED <<status, video_path, total, done, error, final_url,
                   has_replacement, clip_error, storage, queue, api, response,
                   source, pool_size, faults, lookup, request_body,
                   status_response, redelivered, stitch_enqueued,
                   split_progress>>

\* the local files that exist when the step of lines 259-291 named raises:
\* temp_ref is removed at line 265, after its upload
BuildFiles(step) ==
    CASE step = "upload_ref" -> {"temp_ref"}
      [] step \in {"download_image", "upload_image"} -> {"temp_image"}
      [] step = "extract_audio" -> {"temp_image", "temp_audio"}
      [] step \in {"create_video", "upload_replacement", "none"} ->
             {"temp_image", "temp_audio", "temp_replacement"}

\* the steps whose failure is explored: the first and the last
BuildSteps == {"upload_ref", "upload_replacement"}

\* process_clip goes on to set has_replacement = "true" without the
\* replacement having been uploaded
ClipBuild_NoUpload(r) ==
    /\ At(r, "process_clip", "c_build")
    /\ Become(r, [r EXCEPT !.temp = @ \cup BuildFiles("none"),
                            !.pc = "c_set_true"])
    /\ UNCHANGED <<ledger, storage, queue, api, response, source, pool_size,
                   faults, lookup, request_body, status_response, redelivered,
                   stitch_enqueued, split_progress>>

\* lines 259-292: save the reference text, download the image, build the
\* replacement, upload it to videos/{job}/replacements/{idx}.mp4
ClipBuild(r) ==
    /\ At(r, "process_clip", "c_build")
    /\ \/ /\ replacements' = [replacements EXCEPT ![r.idx] =
                                 r.image_url]
          /\ Become(r, [r EXCEPT !.temp = @ \cup BuildFiles("none"),
                                  !.pc = "c_set_true"])
       \/ /\ \E step \in BuildSteps :
                Become(r, [r EXCEPT !.temp = @ \cup BuildFiles(step),
                                    !.pc = "x_set_hr"])
          /\ UNCHANGED replacements
    /\ UNCHANGED <<ledger, chunks, final_object, queue, api, response, source,
                   pool_size, faults, lookup, request_body, status_response,
                   redelivered, stitch_enqueued, split_progress>>

ClipSetTrue(r) ==
    /\ At(r, "process_clip", "c_set_true")
    /\ SetHasReplacement(r, "true", "c_incr", "x_set_hr")

\* lines 295-299: except of the inner try
ClipExSetHasReplacement(r) ==
    /\ At(r, "process_clip", "x_set_hr")
    /\ SetHasReplacement(r, "false", "x_set_err", "h_set_hr")

ClipExSetError(r) ==
    /\ At(r, "process_clip", "x_set_err")
    /\ SetClipError(r, "replacement_failed", "c_incr", "h_set_hr")

\* lines 300-302
ClipNoImageSetHasReplacement(r) ==
    /\ At(r, "process_clip", "c_noimg_set_hr")
    /\ SetHasReplacement(r, "false", "c_incr", "h_set_hr")

\* lines 304-312: the fan-in
ClipIncr(r) ==
    /\ At(r, "process_clip", "c_incr")
    /\ IncrDone(r, "c_get_total", "h_set_hr")

ClipGetTotal(r) ==
    /\ At(r, "process_clip", "c_get_total")
    /\ GetTotal(r, "c_enqueue", "returned", "h_set_hr")

ClipEnqueue(r) ==
    /\ At(r, "process_clip", "c_enqueue")
    /\ EnqueueStitch(r, "returned", "h_set_hr")

\* lines 314-327: except Exception of the outer try; an exception raised in
\* here is caught at line 326, logged and dropped (h_redis_error), and the
\* function returns
ClipHSetHasReplacement(r) ==
    /\ At(r, "process_clip", "h_set_hr")
    /\ SetHasReplacement(r, "false", "h_set_err", "h_redis_error")

\* a failure handler that marks the whole job failed, as the handlers of
\* split_video and stitch_video do
ClipHSetError_FailsJob(r) ==
    /\ At(r, "process_clip", "h_set_err")
    /\ status' = "failed"
    /\ clip_error' = [clip_error EXCEPT ![r.idx] = "critical_failure"]
    /\ ttl' = [ttl EXCEPT ![<<"status">>] = "persistent",
                          ![<<"clip", r.idx, "error">>] = "persistent"]
    /\ Goto(r, "h_incr")
    /\ UNCHANGED <<video_path, total, done, error, final_url, has_replacement,
                   used_images, storage, queue, api, response, source,
                   pool_size, faults, lookup, request_body, status_response,
                   redelivered, stitch_enqueued, split_progress>>

ClipHSetError(r) ==
    /\ At(r, "process_clip", "h_set_err")
    /\ SetClipError(r, "critical_failure", "h_incr", "h_redis_error")

\* a failure handler that goes on to the fan-in test without counting the
\* clip
ClipHIncr_NoIncr(r) ==
    /\ At(r, "process_clip", "h_incr")
    /\ Become(r, [r EXCEPT !.l_done = done, !.pc = "h_get_total"])
    /\ UNCHANGED <<ledger, storage, queue, api, response, source, pool_size,
                   faults, lookup, request_body, status_response, redelivered,
                   stitch_enqueued, split_progress>>

ClipHIncr(r) ==
    /\ At(r, "process_clip", "h_incr")
    /\ IncrDone(r, "h_get_total", "h_redis_error")

ClipHGetTotal(r) ==
    /\ At(r, "process_clip", "h_get_total")
    /\ GetTotal(r, "h_enqueue", "returned", "h_redis_error")

ClipHEnqueue(r) ==
    /\ At(r, "process_clip", "h_enqueue")
    /\ EnqueueStitch(r, "returned", "h_redis_error")

\* -------------------------------------------------- worker.py stitch_video
StitchRaise(r) == Goto(r, "st_fail_status")
\* a call to Redis or object storage raises
StitchFault(r) == faults /\ StitchRaise(r)

StitchSetStitching(r) ==
    /\ At(r, "stitch_video", "st_set_stitching")
    /\ \/ /\ status' = "stitching" /\ SetPlain(<<"status">>)
          /\ Goto(r, "st_get_total")
       \/ StitchFault(r) /\ UNCHANGED <<status, ttl>>
    /\ UNCHANGED <<video_path, total, done, error, final_url, has_replacement,
                   clip_error, used_images, storage, queue, api, response,
                   source, pool_size, faults, lookup, request_body,
                   status_response, redelivered, stitch_enqueued,
                   split_progress>>

\* line 349, then temp_concat_dir = mkdtemp(); with no clip to fetch the
\* function goes on to create the file final_video names (line 372)
StitchGetTotal(r) ==
    /\ At(r, "stitch_video", "st_get_total")
    /\ \/ Become(r, [r EXCEPT !.l_total = total, !.i = 0,
                        !.temp = IF total = 0
                                 THEN {"temp_concat_dir", "final_video"}
                                 ELSE {"temp_concat_dir"},
                        !.pc = IF total = 0 THEN "st_concat"
                                  ELSE "st_read"])
       \/ StitchFault(r)
    /\ UNCHANGED <<ledger, storage, queue, api, response, source, pool_size,
                   faults, lookup, request_body, status_response, redelivered,
                   stitch_enqueued, split_progress>>

\* line 356: has_replacement = get(f"job:{job_id}:clip:{idx}:has_replacement")
StitchRead(r) ==
    /\ At(r, "stitch_video", "st_read")
    /\ \/ Become(r, [r EXCEPT
                        !.reads = Append(@, has_replacement[r.i]),
                        !.pc = "st_download"])
       \/ StitchFault(r)
    /\ UNCHANGED <<ledger, storage, queue, api, response, source, pool_size,
                   faults, lookup, request_body, status_response, redelivered,
                   stitch_enqueued, split_progress>>

\* the chunk is downloaded whatever has_replacement holds
RemotePath_AlwaysChunk(hr, idx) == <<"chunks", idx>>

\* lines 358-363: videos/{job}/replacements/{idx}.mp4 if the value read is
\* "true", videos/{job}/chunks/{idx}.mp4 otherwise
RemotePath(hr, idx) ==
    IF hr = "true" THEN <<"replacements", idx>> ELSE <<"chunks", idx>>

\* the object stitch_video downloads for the value it read is in the bucket
RemoteExists(hr, idx) ==
    IF RemotePath(hr, idx)[1] = "replacements"
    THEN replacements[idx] # NoImage ELSE idx \in chunks

\* clip_paths.insert(0, temp_clip) instead of clip_paths.append(temp_clip)
StitchDownload_Prepend(r) ==
    /\ At(r, "stitch_video", "st_download")
    /\ \/ /\ RemoteExists(r.reads[Len(r.reads)], r.i)
          /\ Become(r, [r EXCEPT !.i = @ + 1,
                           !.clip_paths = <<r.i>> \o @,
                           !.remote_paths =
                               Append(@, RemotePath(r.reads[Len(r.reads)],
                                                    r.i)),
                           !.temp = IF r.i + 1 = r.l_total
                                    THEN @ \cup {"final_video"} ELSE @,
                           !.pc = IF r.i + 1 = r.l_total
                                     THEN "st_concat" ELSE "st_read"])
       \/ /\ faults \/ ~RemoteExists(r.reads[Len(r.reads)], r.i)
          /\ StitchRaise(r)
    /\ UNCHANGED <<ledger, storage, queue, api, response, source, pool_size,
                   faults, lookup, request_body, status_response, redelivered,
                   stitch_enqueued, split_progress>>

\* lines 358-369: download the clip the value read selects into
\* temp_concat_dir and append it to clip_paths; after the last clip the
\* function goes on to create the file final_video names (line 372)
StitchDownload(r) ==
    /\ At(r, "stitch_video", "st_download")
    /\ \/ /\ RemoteExists(r.reads[Len(r.reads)], r.i)
          /\ Become(r, [r EXCEPT !.i = @ + 1,
                           !.clip_paths = Append(@, r.i),
                           !.remote_paths =
                               Append(@, RemotePath(r.reads[Len(r.reads)],
                                                    r.i)),
                           !.temp = IF r.i + 1 = r.l_total
                                    THEN @ \cup {"final_video"} ELSE @,
                           !.pc = IF r.i + 1 = r.l_total
                                     THEN "st_concat" ELSE "st_read"])
       \/ /\ faults \/ ~RemoteExists(r.reads[Len(r.reads)], r.i)
          /\ StitchRaise(r)
    /\ UNCHANGED <<ledger, storage, queue, api, response, source, pool_size,
                   faults, lookup, request_body, status_response, redelivered,
                   stitch_enqueued, split_progress>>

\* concat_videos, then the upload of videos/{job}/final.mp4; ffmpeg's concat
\* fails on an empty list.  concat_videos writes its list file
\* final_video + '.txt' and removes it in its own finally, whether ffmpeg
\* failed or not
StitchConcat(r) ==
    /\ At(r, "stitch_video", "st_concat")
    /\ \/ /\ r.l_total > 0
          /\ final_object' = TRUE
          /\ Goto(r, "st_set_final_url")
       \/ (faults \/ r.l_total = 0) /\ StitchRaise(r) /\ UNCHANGED final_object
    /\ UNCHANGED <<ledger, chunks, replacements, queue, api, response, source,
                   pool_size, faults, lookup, request_body, status_response,
                   redelivered, stitch_enqueued, split_progress>>

StitchSetFinalUrl(r) ==
    /\ At(r, "stitch_video", "st_set_final_url")
    /\ \/ /\ final_url' = "url" /\ SetPlain(<<"final_url">>)
          /\ Goto(r, "st_set_finished")
       \/ StitchFault(r) /\ UNCHANGED <<final_url, ttl>>
    /\ UNCHANGED <<status, video_path, total, done, error, has_replacement,
                   clip_error, used_images, storage, queue, api, response,
                   source, pool_size, faults, lookup, request_body,
                   status_response, redelivered, stitch_enqueued,
                   split_progress>>

StitchSetFinished(r) ==
    /\ At(r, "stitch_video", "st_set_finished")
    /\ \/ /\ status' = "finished" /\ SetPlain(<<"status">>)
          /\ Goto(r, "returned")
       \/ StitchFault(r) /\ UNCHANGED <<status, ttl>>
    /\ UNCHANGED <<video_path, total, done, error, final_url, has_replacement,
                   clip_error, used_images, storage, queue, api, response,
                   source, pool_size, faults, lookup, request_body,
                   status_response, redelivered, stitch_enqueued,
                   split_progress>>

\* a handler that records the error but leaves the status as it is
StitchFailStatus_NoWrite(r) ==
    /\ At(r, "stitch_video", "st_fail_status")
    /\ Goto(r, "st_fail_error")
    /\ UNCHANGED <<ledger, storage, queue, api, response, source, pool_size,
                   faults, lookup, request_body, status_response, redelivered,
                   stitch_enqueued, split_progress>>

StitchFailStatus(r) ==
    /\ At(r, "stitch_video", "st_fail_status")
    /\ \/ /\ status' = "failed" /\ SetPlain(<<"status">>)
          /\ Goto(r, "st_fail_error")
       \/ faults /\ Goto(r, "handler_raised") /\ UNCHANGED <<status, ttl>>
    /\ UNCHANGED <<video_path, total, done, error, final_url, has_replacement,
                   clip_error, used_images, storage, queue, api, response,
                   source, pool_size, faults, lookup, request_body,
                   status_response, redelivered, stitch_enqueued,
                   split_progress>>

StitchFailError(r) ==
    /\ At(r, "stitch_video", "st_fail_error")
    /\ \/ /\ error' = "stitch_video" /\ SetPlain(<<"error">>)
          /\ Goto(r, "raised")
       \/ faults /\ Goto(r, "handler_raised") /\ UNCHANGED <<error, ttl>>
    /\ UNCHANGED <<status, video_path, total, done, final_url,
                   has_replacement, clip_error, used_images, storage, queue,
                   api, response, source, pool_size, faults, lookup,
                   request_body, status_response, redelivered,
                   stitch_enqueued, split_progress>>

Next ==
    \/ CreateJobReject
    \/ CreateJobBadBody
    \/ CreateJobAccept
    \/ CreateJobSetStatus
    \/ CreateJobSetVideoPath
    \/ CreateJobSetTotal
    \/ CreateJobSetDone
    \/ CreateJobEnqueue
    \/ \E t \in Tasks : Deliver(t)
    \/ \E r \in Running : Finish(r)
    \/ \E r \in Running : SplitSetProcessing(r)
    \/ \E r \in Running : SplitPrepare(r)
    \/ \E r \in Running : SplitDownload(r)
    \/ \E r \in Running : SplitTrim(r)
    \/ \E r \in Running : SplitCut(r)
    \/ \E r \in Running : SplitUpload(r)
    \/ \E r \in Running : SplitSetTotal(r)
    \/ \E r \in Running : SplitEnqueue(r)
    \/ \E r \in Running : SplitFailStatus(r)
    \/ \E r \in Running : SplitFailError(r)
    \/ \E r \in Running : ClipBegin(r)
    \/ \E r \in Running : ClipTranscribe(r)
    \/ \E r \in Running : ClipLookup(r)
    \/ \E r \in Running : ClipTrSetHasReplacement(r)
    \/ \E r \in Running : ClipTrSetError(r)
    \/ \E r \in Running : ClipTrIncr(r)
    \/ \E r \in Running : ClipTrGetTotal(r)
    \/ \E r \in Running : ClipTrEnqueue(r)
    \/ \E r \in Running : ClipSmembers(r)
    \/ \E r \in Running : ClipUsedSetHasReplacement(r)
    \/ \E r \in Running : ClipSadd(r)
    \/ \E r \in Running : ClipBuild(r)
    \/ \E r \in Running : ClipSetTrue(r)
    \/ \E r \in Running : ClipExSetHasReplacement(r)
    \/ \E r \in Running : ClipExSetError(r)
    \/ \E r \in Running : ClipNoImageSetHasReplacement(r)
    \/ \E r \in Running : ClipIncr(r)
    \/ \E r \in Running : ClipGetTotal(r)
    \/ \E r \in Running : ClipEnqueue(r)
    \/ \E r \in Running : ClipHSetHasReplacement(r)
    \/ \E r \in Running : ClipHSetError(r)
    \/ \E r \in Running : ClipHIncr(r)
    \/ \E r \in Running : ClipHGetTotal(r)
    \/ \E r \in Running : ClipHEnqueue(r)
    \/ \E r \in Running : StitchSetStitching(r)
    \/ \E r \in Running : StitchGetTotal(r)
    \/ \E r \in Running : StitchRead(r)
    \/ \E r \in Running : StitchDownload(r)
    \/ \E r \in Running : StitchConcat(r)
    \/ \E r \in Running : StitchSetFinalUrl(r)
    \/ \E r \in Running : StitchSetFinished(r)
    \/ \E r \in Running : StitchFailStatus(r)
    \/ \E r \in Running : StitchFailError(r)

NextAtLeastOnce ==
    \/ Next
    \/ \E r \in Running : Redeliver(r)

Spec == Init /\ [][Next]_vars

SpecAtLeastOnce == InitAtLeastOnce /\ [][NextAtLeastOnce]_vars

\* one worker process, every message delivered once, and a client polling
\* GET /jobs/<job_id>
NextOneWorker ==
    \/ Next
    \/ GetJobStatus

SpecOneWorker == InitAtLeastOnce /\ [][NextOneWorker]_vars

\* the steps that can be taken when no call to Redis, the arq pool or object
\* storage raises: the bodies of the task functions, never their handlers
NextReliable ==
    \/ CreateJobReject
    \/ CreateJobBadBody
    \/ CreateJobAccept
    \/ CreateJobSetStatus
    \/ CreateJobSetVideoPath
    \/ CreateJobSetTotal
    \/ CreateJobSetDone
    \/ CreateJobEnqueue
    \/ \E t \in Tasks : Deliver(t)
    \/ \E r \in Running : Finish(r)
    \/ \E r \in Running : SplitSetProcessing(r)
    \/ \E r \in Running : SplitPrepare(r)
    \/ \E r \in Running : SplitDownload(r)
    \/ \E r \in Running : SplitTrim(r)
    \/ \E r \in Running : SplitCut(r)
    \/ \E r \in Running : SplitUpload(r)
    \/ \E r \in Running : SplitSetTotal(r)
    \/ \E r \in Running : SplitEnqueue(r)
    \/ \E r \in Running : ClipBegin(r)
    \/ \E r \in Running : ClipTranscribe(r)
    \/ \E r \in Running : ClipLookup(r)
    \/ \E r \in Running : ClipTrSetHasReplacement(r)
    \/ \E r \in Running : ClipTrSetError(r)
    \/ \E r \in Running : ClipTrIncr(r)
    \/ \E r \in Running : ClipTrGetTotal(r)
    \/ \E r \in Running : ClipTrEnqueue(r)
    \/ \E r \in Running : ClipSmembers(r)
    \/ \E r \in Running : ClipUsedSetHasReplacement(r)
    \/ \E r \in Running : ClipSadd(r)
    \/ \E r \in Running : ClipBuild(r)
    \/ \E r \in Running : ClipSetTrue(r)
    \/ \E r \in Running : ClipExSetHasReplacement(r)
    \/ \E r \in Running : ClipExSetError(r)
    \/ \E r \in Running : ClipNoImageSetHasReplacement(r)
    \/ \E r \in Running : ClipIncr(r)
    \/ \E r \in Running : ClipGetTotal(r)
    \/ \E r \in Running : ClipEnqueue(r)
    \/ \E r \in Running : StitchSetStitching(r)
    \/ \E r \in Running : StitchGetTotal(r)
    \/ \E r \in Running : StitchRead(r)
    \/ \E r \in Running : StitchDownload(r)
    \/ \E r \in Running : StitchConcat(r)
    \/ \E r \in Running : StitchSetFinalUrl(r)
    \/ \E r \in Running : StitchSetFinished(r)

\* the arq worker polls the queue for ever and every await of a task function
\* completes (or times out, job_timeout = 300): a step that stays possible is
\* eventually taken
SpecReliable ==
    InitReliable /\ [][NextReliable]_vars /\ WF_vars(NextReliable)

\* one worker, messages may be delivered again, and a client polling
\* GET /jobs/<job_id>
NextRequery ==
    \/ NextReliable
    \/ \E r \in Running : Redeliver(r)
    \/ GetJobStatus

SpecRequery == InitRequery /\ [][NextRequery]_vars

\* one worker, no failing call; the queue may deliver a process_clip
\* message again
NextClipAgain ==
    \/ NextReliable
    \/ \E r \in Running : r.task = "process_clip" /\ Redeliver(r)

SpecClipAgain == InitRequery /\ [][NextClipAgain]_vars

\* the reference lookup of process_clip (lines 200-241) on its own, for every
\* combination of what the four categories hold
InitLookup ==
    /\ InitJob /\ pool_size = 1 /\ faults = FALSE
    /\ lookup \in [references : References, image_url : {Unset}]

LookupReferences ==
    /\ lookup.image_url = Unset
    /\ lookup' = [lookup EXCEPT !.image_url =
                     FirstImage(ProcessTranscriptReferences(lookup.references))]
    /\ UNCHANGED <<ledger, storage, queue, running, api, response,
                   status_response, source, pool_size, faults, redelivered,
                   stitch_enqueued, split_progress, handler_dropped,
                   request_body>>

NextLookup == LookupReferences

SpecLookup == InitLookup /\ [][NextLookup]_vars

\* ------------------------------------------------------------------ claims
\* process_clip has terminated: it returned, after the failure handler's own
\* exception was dropped (h_redis_error) or without one
Terminated(r) == r.task = "process_clip" /\ AtEnd(r.pc)

\* every process_clip message of the job has been delivered and has terminated
ClipsAllTerminated ==
    /\ \A i \in ClipIdx : queue[ClipTask(i)] = 0
    /\ \A r \in Running : r.task = "process_clip" => AtEnd(r.pc)

\* nothing is queued and nothing runs
Quiescent == running = EmptyBag /\ \A t \in Tasks : queue[t] = 0

\* C1: for a job whose split_video completed with N >= 1 clips, once its
\* process_clip tasks have all terminated stitch_video has been enqueued
\* exactly once; it is never enqueued more than once.  Stated for the runs in
\* which no call inside a failure handler raised: a failure handler that
\* cannot reach the ledger cannot count its clip
C1_StitchEnqueuedExactlyOnce ==
    /\ stitch_enqueued <= 1
    /\ (/\ split_progress = "returned" /\ total >= 1
        /\ ClipsAllTerminated /\ ~handler_dropped)
          => stitch_enqueued = 1

\* C2: once split_video has recorded total, 0 <= done <= total
C2_DoneWithinTotal ==
    split_progress # "none" => (0 <= done /\ done <= total)

\* C3: a process_clip invocation that has terminated has incremented done
\* exactly once.  Stated for the invocations in whose failure handler no call
\* raised (pc = "returned"): the others cannot have counted their clip
C3_IncrementedExactlyOnce ==
    \A r \in Running :
        (Terminated(r) /\ r.pc = "returned") => r.incrs = 1

\* C4: when process_clip has terminated on any path, the failure
\* handler's own ledger failure included, has_replacement of its clip is
\* "true" or "false"
C4_HasReplacementSetOnEveryPath ==
    \A r \in Running :
        Terminated(r) => has_replacement[r.idx] \in {"true", "false"}

\* C5: every value stitch_video has read from has_replacement was set
C5_StitchReadsOnlySetKeys ==
    \A r \in Running :
        r.task = "stitch_video"
            => \A k \in 1..Len(r.reads) : r.reads[k] # Unset

\* C6: when the process_clip tasks have terminated, no two clips have
\* has_replacement = "true" with replacements built from the same image
C6_NoImageUsedTwice ==
    ClipsAllTerminated =>
        \A i, j \in ClipIdx :
            (i # j /\ has_replacement[i] = "true" /\ has_replacement[j] = "true")
                => replacements[i] # replacements[j]

\* C7: no hung job: when create_job has answered CREATED, split_video has
\* produced its clip count and returned, and nothing is queued or running any
\* more, the job is finished or failed
C7_NoHungJob ==
    (response = "CREATED" /\ split_progress = "returned" /\ Quiescent)
        => status \in {"finished", "failed"}

\* C8: a status of failed or finished never changes again
C8_TerminalStatusIsFinal ==
    [][(status \in {"failed", "finished"}) => (status' = status)]_vars

\* C9: status only moves forward along queued, processing, stitching,
\* finished, or to failed from a status that is not terminal
StatusRank(st) ==
    CASE st = Unset -> 0
      [] st = "queued" -> 1
      [] st = "processing" -> 2
      [] st = "stitching" -> 3
      [] st = "finished" -> 4
      [] st = "failed" -> 5

C9_StatusMovesForward ==
    [][\/ status' = status
       \/ status' = "failed" /\ status # "finished"
       \/ /\ status # "failed" /\ status' # "failed"
          /\ StatusRank(status') > StatusRank(status)]_vars

\* C10: final_url is set if and only if status is finished
C10_FinalUrlIffFinished ==
    (final_url # Unset) <=> (status = "finished")

\* C11: the list of clips stitch_video builds for concat_videos holds the
\* indices in ascending order 0, 1, ..., one entry per index, and when it is
\* passed to concat_videos it holds all of 0 .. total-1 (total as read by
\* stitch_video), in whatever order the process_clip tasks completed
C11_ClipPathsAscending ==
    \A r \in Running :
        r.task = "stitch_video" =>
            /\ \A k \in 1..Len(r.clip_paths) : r.clip_paths[k] = k - 1
            /\ r.pc = "st_concat" => Len(r.clip_paths) = r.l_total

\* C11 witness: stitch_video is about to concatenate <<0, 1>> in a job whose
\* clip 1 was counted first (its incr returned 1) and clip 0 second
C11_Witness ==
    /\ \E r \in Running :
          At(r, "stitch_video", "st_concat") /\ r.clip_paths = <<0, 1>>
    /\ \E c \in Running :
          /\ c.task = "process_clip" /\ c.idx = 1
          /\ c.pc = "c_get_total" /\ c.l_done = 1

\* C12: when the transcription of a clip has failed (all retries) and Redis,
\* the queue and object storage work, the job still gets finished: the clip
\* keeps has_replacement = "false", stitch_video reads "false" for it and so
\* takes its original chunk, the final video is uploaded and done has reached
\* total.  (split_video's default max_duration = 40 caps a job at 2 clips.)
C12_TranscriptionFailureStillFinishes ==
    /\ [](\A r \in Running :
            r.task = "stitch_video" =>
                \A k \in 1..Len(r.reads) :
                    clip_error[k - 1] = "transcription_failed"
                        => r.reads[k] = "false")
    /\ \A i \in ClipIdx :
          (clip_error[i] = "transcription_failed")
              ~> (/\ status = "finished" /\ final_object
                  /\ has_replacement[i] = "false" /\ done = total)

\* C12 witness: a finished two-clip job, one clip with a failed transcription
\* and the other with a replacement
C12_Witness ==
    /\ status = "finished" /\ total = 2 /\ done = 2 /\ final_object
    /\ \E i, j \in ClipIdx :
          /\ clip_error[i] = "transcription_failed"
          /\ has_replacement[i] = "false"
          /\ has_replacement[j] = "true"

\* C13: once split_video has recorded total, total is ceil(D / C) for the
\* source's duration D and the chunk duration C (3 for a 45-second source and
\* 20-second chunks)
C13_TotalIsCeilOfDuration ==
    split_progress # "none"
        => total = (source + chunk_duration - 1) \div chunk_duration

\* a step of a process_clip invocation
ProcessClipStep(r) ==
    \/ ClipBegin(r) \/ ClipTranscribe(r) \/ ClipLookup(r)
    \/ ClipTrSetHasReplacement(r) \/ ClipTrSetError(r) \/ ClipTrIncr(r)
    \/ ClipTrGetTotal(r) \/ ClipTrEnqueue(r)
    \/ ClipSmembers(r) \/ ClipUsedSetHasReplacement(r) \/ ClipSadd(r)
    \/ ClipBuild(r) \/ ClipSetTrue(r)
    \/ ClipExSetHasReplacement(r) \/ ClipExSetError(r)
    \/ ClipNoImageSetHasReplacement(r)
    \/ ClipIncr(r) \/ ClipGetTotal(r) \/ ClipEnqueue(r)
    \/ ClipHSetHasReplacement(r) \/ ClipHSetError(r) \/ ClipHIncr(r)
    \/ ClipHGetTotal(r) \/ ClipHEnqueue(r)

\* C14: process_clip never fails the job: no step of it changes status, error,
\* total or final_url, and it never ends by raising to the queue.  (The calls
\* outside its try block, get_supabase_client at line 162 and the cleanup of
\* the finally block, touch no shared state and are taken not to raise.)
C14_ProcessClipNeverFailsJob ==
    /\ [](\A r \in Running :
            r.task = "process_clip" => r.pc \notin {"raised", "handler_raised"})
    /\ [][(\E r \in Running : ProcessClipStep(r))
            => UNCHANGED <<status, error, total, final_url>>]_vars

\* C14 witness: a process_clip has returned through its failure handler
\* (critical_failure) and the job is still processing, with no job error
C14_Witness ==
    /\ status = "processing" /\ error = Unset
    /\ \E r \in Running :
          /\ Terminated(r) /\ r.pc = "returned"
          /\ clip_error[r.idx] = "critical_failure"

\* C15: when process_clip reaches the fan-in after a clip-degradable outcome
\* (transcription failure, lookup failure, image already used, replacement
\* construction failure), the clip's error key holds a value
C15_DegradationHasClipError ==
    \A r \in Running :
        (/\ r.task = "process_clip"
         /\ \/ r.pc = "t_incr"
            \/ /\ r.pc = "c_incr"
               /\ r.outcome \in {"lookup_failed", "image_used",
                                  "replacement_failed"})
            => clip_error[r.idx] # Unset

\* C16: with one worker process: split_video has set status to processing
\* when it goes on past its entry, and when it ends by re-raising after a
\* failure at any step (the handler's two ledger writes having succeeded,
\* pc = "raised") status is failed and error is populated
C16_SplitFailureMarksJobFailed ==
    \A r \in Running :
        r.task = "split_video" =>
            /\ r.pc \in {"s_get_video_path", "s_upload", "s_set_total",
                          "s_enqueue"} => status = "processing"
            /\ r.pc = "raised" => (status = "failed" /\ error = "split_video")

\* C16 witness: split_video has re-raised after failing to enqueue the second
\* process_clip: both chunks uploaded, total written, one clip task queued
C16_Witness ==
    /\ \E r \in Running : At(r, "split_video", "raised")
    /\ status = "failed" /\ error = "split_video"
    /\ chunks = {0, 1} /\ total = 2
    /\ queue[ClipTask(0)] = 1 /\ queue[ClipTask(1)] = 0

\* C17: with one worker process: stitch_video has set status to stitching
\* when it goes on past its entry; when it ends by re-raising after a failure
\* (the handler's two ledger writes having succeeded) status is failed and
\* error is populated; when it returns, final_url is recorded, the final video
\* is uploaded and status is finished
C17_StitchEndsFailedOrFinished ==
    \A r \in Running :
        r.task = "stitch_video" =>
            /\ r.pc \in {"st_get_total", "st_read", "st_download",
                          "st_concat", "st_set_final_url", "st_set_finished"}
                  => status = "stitching"
            /\ r.pc = "raised" => (status = "failed" /\ error = "stitch_video")
            /\ r.pc = "returned"
                  => (status = "finished" /\ final_url # Unset /\ final_object)

\* C17 witness: stitch_video has re-raised after its last ledger write (status
\* = finished) failed: the final video is uploaded, the job is failed
C17_Witness ==
    /\ \E r \in Running : At(r, "stitch_video", "raised")
    /\ status = "failed" /\ error = "stitch_video"
    /\ final_object /\ final_url # Unset

\* C18: with Redis reachable, get_job_status for a job that was never created
\* (no status key) answers NOT_FOUND (404, success = false, no data), having
\* read only the status key, and changes nothing in the ledger, the storage
\* or the queue
C18_UnknownJobNotFound ==
    [][(GetJobStatus /\ status = Unset)
         => /\ status_response'.code = "NOT_FOUND"
            /\ status_response'.keys = {}
            /\ status_response'.read = {"status"}
            /\ UNCHANGED <<ledger, storage, queue>>]_vars

\* C18 witness: the job was never created and get_job_status has answered
\* NOT_FOUND
C18_Witness ==
    /\ status = Unset /\ api = "idle"
    /\ status_response.code = "NOT_FOUND"

\* C19: once get_job_status has answered finished, every later call answers
\* the same: finished, with the same final_url
C19_FinishedResponseRepeats ==
    [][(status_response.code = "OK" /\ status_response.status = "finished")
         => status_response' = status_response]_vars

\* C20: a response for a failed job holds the recorded error, and a response
\* for a finished job holds the final_url
C20_ResponseExposesOutcome ==
    status_response.code = "OK" =>
        /\ status_response.status = "failed"
              => "error" \in status_response.keys
        /\ status_response.status = "finished"
              => (/\ "final_url" \in status_response.keys
                  /\ status_response.final_url # Unset)
\* C21: when split_video, process_clip or stitch_video has returned or
\* raised, no local temporary file or directory the invocation created is
\* left, whichever step failed
C21_TempFilesRemoved ==
    \A r \in Running : AtEnd(r.pc) => r.temp = {}

\* C22: every ledger key that has been written carries a TTL, also after a
\* worker stage has overwritten a key created by create_job or has created a
\* new key
C22_EveryKeyExpires ==
    \A k \in Keys : ttl[k] # "persistent"

\* C23: total changes only from 0, and only when chunks 0 .. total-1 have
\* all been uploaded: it is 0 from job creation until split_video has
\* finished its uploads, and a non-zero value is never replaced by another,
\* also when split_video is delivered a second time
C23_TotalWrittenOnce ==
    [][total' # total =>
          (total = 0 /\ \A i \in 0..(total' - 1) : i \in chunks)]_vars

\* a second invocation of split_video has written total again
C23_Witness ==
    /\ split_progress = "returned"
    /\ total = NumClips(max_duration, chunk_duration)
    /\ \E r \in Running : At(r, "split_video", "s_enqueue")

\* C24: process_clip writes a clip's has_replacement once: a value that
\* has been written is not replaced by another, in particular "true" is
\* never overwritten with "false"
C24_HasReplacementWrittenOnce ==
    [][\A i \in ClipIdx :
          has_replacement[i] # Unset =>
              has_replacement'[i] = has_replacement[i]]_vars

\* C25: the image a clip uses is that of the first category, in the order
\* content, people, organisations, events, whose reference has an image: a
\* category without a reference, with a failing search or with a search
\* result without image is passed over, and the clip goes without image
\* only when no category has one
C25_FirstUsableReference ==
    lookup.image_url # Unset =>
        \/ \E k \in DOMAIN Priority :
              /\ lookup.references[Priority[k]] \in Images
              /\ lookup.image_url = lookup.references[Priority[k]]
              /\ \A j \in 1..(k - 1) :
                    lookup.references[Priority[j]] \notin Images
        \/ /\ lookup.image_url = NoImage
           /\ \A c \in Categories : lookup.references[c] \notin Images

\* C26: when split_video runs a second time, after an earlier invocation
\* returned, done is 0 when it starts to enqueue its process_clip tasks
C26_DoneResetOnRerun ==
    \A r \in Running :
        (At(r, "split_video", "s_enqueue") /\ r.i = 0
         /\ split_progress = "returned") => done = 0

\* C27: the k-th object stitch_video has downloaded is the replacement of
\* clip k-1 exactly when the value it read from that clip's has_replacement
\* key is "true", and the chunk of clip k-1 otherwise; the object is one
\* that split_video or process_clip uploaded under that index
C27_StitchSelectsByHasReplacement ==
    \A r \in Running :
        r.task = "stitch_video" =>
            \A k \in DOMAIN r.remote_paths :
                /\ r.remote_paths[k][2] = k - 1
                /\ r.remote_paths[k][1] = "replacements"
                       <=> r.reads[k] = "true"
                /\ r.remote_paths[k][1] = "chunks" <=> r.reads[k] # "true"
                /\ IF r.reads[k] = "true"
                   THEN replacements[k - 1] # NoImage
                   ELSE (k - 1) \in chunks

\* stitch_video has downloaded a replacement and a chunk
C27_Witness ==
    \E r \in Running :
        /\ At(r, "stitch_video", "st_concat")
        /\ \E j, k \in DOMAIN r.remote_paths :
              /\ r.remote_paths[j][1] = "replacements"
              /\ r.remote_paths[k][1] = "chunks"

\* C28: when an exception of process_clip reaches its failure handler (it
\* was raised outside the inner try of lines 253-299) before the fan-in
\* increment, and the handler's own calls succeed: past its two writes the
\* clip has has_replacement = "false" and error = "critical_failure"; past
\* its incr the invocation has counted the clip in done; it goes on to
\* enqueue stitch_video exactly when the done it got equals total, and the
\* enqueue call then adds stitch_video to the queue
C28_HandlerAccountsForClip ==
    /\ [](\A r \in Running :
            r.task = "process_clip" =>
                /\ r.pc \in {"h_incr", "h_get_total", "h_enqueue"} =>
                       /\ has_replacement[r.idx] = "false"
                       /\ clip_error[r.idx] = "critical_failure"
                /\ r.pc \in {"h_get_total", "h_enqueue"} =>
                       /\ r.incrs >= 1
                       /\ done >= r.incrs
                /\ r.pc = "h_get_total" => (r.l_done >= 1 /\ r.l_done <= done)
                /\ r.pc = "h_enqueue" => done >= total)
    /\ [][\A r \in Running :
            /\ (ClipHGetTotal(r) /\ ~handler_dropped') =>
                   IF r.l_done = total
                   THEN \E r2 \in BagToSet(running') :
                            At(r2, "process_clip", "h_enqueue")
                   ELSE UNCHANGED <<queue, stitch_enqueued>>
            /\ (ClipHEnqueue(r) /\ ~handler_dropped') =>
                   /\ queue'[StitchTask] = queue[StitchTask] + 1
                   /\ stitch_enqueued' = stitch_enqueued + 1]_vars

\* the download of the second clip raised, its handler has counted the clip
\* and found done equal to total
C28_Witness ==
    /\ total = 2 /\ done = 2
    /\ \E r \in Running :
          /\ At(r, "process_clip", "h_enqueue")
          /\ r.incrs = 1

\* C29: transcribe_with_elevenlabs makes at most max_retries attempts: an
\* attempt that succeeds takes process_clip on to the reference lookup at
\* once, a failed attempt is followed by the next one, and the function
\* raises only when the last attempt (number max_retries - 1) has failed.
\* process_clip then writes has_replacement = "false" and error =
\* "transcription_failed" and, these writes having succeeded, is at the
\* fan-in increment without having passed through the reference lookup
C29_TranscriptionRetriesBounded ==
    /\ [](\A r \in Running :
            r.task = "process_clip" =>
                /\ r.pc = "c_transcribe" => r.attempt \in 0..(max_retries - 1)
                /\ r.pc = "t_incr" =>
                       /\ has_replacement[r.idx] = "false"
                       /\ clip_error[r.idx] = "transcription_failed")
    /\ [][\A r \in Running :
            ProcessClipStep(r) =>
                \E r2 \in BagToSet(running') :
                    /\ r2.task = "process_clip" /\ r2.idx = r.idx
                    /\ r.pc = "c_transcribe" =>
                           \/ r2.pc = "c_lookup"
                           \/ /\ r2.pc = "c_transcribe"
                              /\ r2.attempt = r.attempt + 1
                           \/ /\ r2.pc = "t_set_hr"
                              /\ r.attempt = max_retries - 1
                    /\ r.pc = "t_set_hr" => r2.pc \in {"t_set_err", "h_set_hr"}
                    /\ r.pc = "t_set_err" => r2.pc \in {"t_incr", "h_set_hr"}
                    /\ r2.pc = "t_set_hr" => r.pc = "c_transcribe"]_vars

\* every attempt to transcribe a clip has failed and process_clip is at the
\* fan-in increment of the transcription-failure path
C29_Witness ==
    \E r \in Running :
        /\ At(r, "process_clip", "t_incr")
        /\ clip_error[r.idx] = "transcription_failed"
        /\ has_replacement[r.idx] = "false"
        /\ done = 0

\* C30: when the queue delivers a process_clip message of a clip more than
\* once: done does not exceed total, stitch_video is not enqueued before
\* every clip has an outcome, and it is enqueued at most once
C30_RedeliveredClipCountedOnce ==
    /\ split_progress = "returned" => done <= total
    /\ stitch_enqueued > 0 =>
           \A i \in 0..(total - 1) : has_replacement[i] # Unset
    /\ stitch_enqueued <= 1

\* C31: done is at most the number of clips in 0 .. total-1 whose
\* has_replacement key is set, so done = total implies that every clip has
\* a recorded outcome
C31_DoneCountsRecordedOutcomes ==
    done <= Cardinality({i \in 0..(total - 1) : has_replacement[i] # Unset})

\* C32: whenever a process_clip task is in the queue or running, split_video
\* has uploaded every chunk 0 .. total-1 and total is the clip count of the
\* source, which is not 0; the task's own chunk is among them.  So no
\* process_clip reads total = 0 or a missing chunk, and done == total is
\* tested against the final clip count
C32_ClipsStartAfterTotal ==
    \A i \in ClipIdx :
        (queue[ClipTask(i)] > 0
         \/ \E r \in Running : r.task = "process_clip" /\ r.idx = i)
            => /\ total = NumClips(Trimmed(source), chunk_duration)
               /\ total > 0 /\ i < total
               /\ \A j \in 0..(total - 1) : j \in chunks

\* the process_clip of the second clip is about to compare done with total
C32_Witness ==
    /\ total = 2
    /\ \E r \in Running : At(r, "process_clip", "c_get_total") /\ r.idx = 1

\* C33: a clip whose has_replacement is "true" has its replacement object
\* videos/{job}/replacements/{idx}.mp4 in the bucket, and so has every clip
\* for which stitch_video has read "true" and is about to download
C33_TrueImpliesUploaded ==
    /\ \A i \in ClipIdx :
          has_replacement[i] = "true" => replacements[i] # NoImage
    /\ \A r \in Running :
          (At(r, "stitch_video", "st_download")
           /\ r.reads[Len(r.reads)] = "true") => replacements[r.i] # NoImage

\* stitch_video has read "true" for a clip and is about to download its
\* replacement
C33_Witness ==
    \E r \in Running :
        /\ At(r, "stitch_video", "st_download")
        /\ r.reads[Len(r.reads)] = "true"
        /\ has_replacement[r.i] = "true"

\* C34: used_images only grows; the image of every clip whose
\* has_replacement is "true" is a member of it; and an image that is in the
\* set is not used by another clip afterwards: no process_clip goes on to
\* add and use an image that is already a member
C34_UsedImagesKeepsImages ==
    /\ [][used_images \subseteq used_images']_vars
    /\ [](\A i \in ClipIdx :
            has_replacement[i] = "true" => replacements[i] \in used_images)
    /\ [](\A r \in Running :
            At(r, "process_clip", "c_sadd") => r.image_url \notin used_images)

\* C35: when create_job is about to enqueue split_video it has written
\* status = "queued", video_path, total = 0 and done = 0; split_video is
\* enqueued only by that step, once, and that step is the one that accepts
\* the request; and while the last request is one without video_path, it
\* has been answered with INVALID_REQUEST, no ledger key is written and
\* nothing is enqueued.  (The model has one job: the job id is a uuid4.)
C35_CreateJobWritesThenEnqueues ==
    /\ [](api = "enqueue" =>
            /\ status = "queued" /\ video_path # Unset
            /\ total = 0 /\ done = 0
            /\ \A n \in {"status", "video_path", "total", "done"} :
                  ttl[<<n>>] # "absent")
    /\ [][/\ queue'[SplitTask] > queue[SplitTask] =>
               (api = "enqueue" /\ response' = "CREATED")
          /\ (response' = "CREATED" /\ response # "CREATED") =>
               queue'[SplitTask] = queue[SplitTask] + 1
          /\ api = "responded" => api' = "responded"]_vars
    /\ [](request_body \in {"none", "object_without_video_path",
                            "not_an_object"} =>
            /\ response = "INVALID_REQUEST"
            /\ \A k \in Keys : ttl[k] = "absent"
            /\ \A t \in Tasks : queue[t] = 0
            /\ running = EmptyBag)

====
